---- MODULE Spec2Model ----
(***************************************************************************)
(* Model of the invoice upload pipeline of fin-invoice-ocr-team6.          *)
(*                                                                         *)
(* backend/src/controllers/invoiceController.js: the async handler         *)
(* uploadInvoice is a straight-line function that suspends at each await.  *)
(* One action of the model is the code that runs between two suspension    *)
(* points: UploadInvoice is the code up to the first await, and each       *)
(* ...Returns action is the continuation that runs when the awaited        *)
(* collaborator settles.                                                   *)
(*                                                                         *)
(* backend/src/services/invoiceServices.js: validatePDF and                *)
(* validateSizeFile follow their documented contract and their unit        *)
(* tests; authenticate, isPdfEncrypted, checkPdfIntegrity and              *)
(* uploadInvoice(file) are collaborators whose answers are inputs of the   *)
(* handler.                                                                *)
(***************************************************************************)
EXTENDS Integers, Sequences, FiniteSets, TLC

VARIABLES
    req,        \* req[r]: the request r as received (file, body, query)
    pc,         \* pc[r]: the await the handler of r is suspended at
    calls,      \* calls[r]: the collaborators invoked for r, in order
    results,    \* results[r]: how each invoked collaborator settled
    resp,       \* resp[r]: the responses sent for r, in order
    probe,      \* input of a direct call of a validator (unit-test harness)
    verdict     \* how that direct call settled

vars == <<req, pc, calls, results, resp, probe, verdict>>

----------------------------------------------------------------------------
(* Bounds *)

MaxNameLen == 5

\* Buffer lengths are taken up to SizeSpread bytes on each side of the limit.
SizeSpread == 20

----------------------------------------------------------------------------
(* Buffers, strings and JavaScript values *)

\* A string is a tuple of one-character strings.
PdfSignature == <<"%", "P", "D", "F", "-">>
DotPdf == <<".", "p", "d", "f">>

\* Buffer.alloc(size, fill): size bytes, the fill pattern repeated.
BufLen(buffer) == buffer.size

ByteAt(buffer, i) ==
    buffer.fill[((i - 1) % Len(buffer.fill)) + 1]

\* buffer begins with the bytes of sig
StartsWith(buffer, sig) ==
    /\ BufLen(buffer) >= Len(sig)
    /\ \A i \in 1..Len(sig) : ByteAt(buffer, i) = sig[i]

\* Index of the last "." of name, 0 if there is none.
LastDot(name) ==
    LET dots == {i \in 1..Len(name) : name[i] = "."}
    IN  IF dots = {} THEN 0 ELSE CHOOSE i \in dots : \A j \in dots : j <= i

\* The last component of a path: trailing "/" are dropped, then everything up
\* to the last remaining "/".
LastComponent(name) ==
    LET kept  == {i \in 1..Len(name) : name[i] # "/"}
        end   == IF kept = {} THEN 0
                 ELSE CHOOSE i \in kept : \A j \in kept : j <= i
        cuts  == {i \in 1..end : name[i] = "/"}
        start == IF cuts = {} THEN 1
                 ELSE 1 + (CHOOSE i \in cuts : \A j \in cuts : j <= i)
    IN  SubSeq(name, start, end)

\* The extension of a file name (path.extname): of the last component of the
\* path, from its last dot to its end; a component without a dot, a component
\* whose only dot is its first character, and ".." have none.
extname(name) ==
    LET base == LastComponent(name)
        k    == LastDot(base)
    IN  IF k = 0 \/ k = 1 \/ base = <<".", ".">> THEN <<>>
        ELSE SubSeq(base, k, Len(base))

\* How a call settles: it returns a value or it throws.
Returned(v) == [threw |-> FALSE, value |-> v]
Threw(m)    == [threw |-> TRUE, message |-> m]

\* JavaScript truthiness of the values a collaborator may return.
Truthy(v) == v \notin {"false", "undefined", "null"}

----------------------------------------------------------------------------
(* invoiceServices: the validators *)

\* Variant: the extension is checked before the MIME type.
validatePDFExtensionFirst(buffer, mimeType, fileName) ==
    IF extname(fileName) # DotPdf THEN Threw("Invalid file extension")
    ELSE IF mimeType # "application/pdf" THEN Threw("Invalid MIME type")
    ELSE IF ~StartsWith(buffer, PdfSignature) THEN Threw("Invalid PDF file")
    ELSE Returned("true")

\* Variant: only the four bytes %PDF are compared.
validatePDFShortSignature(buffer, mimeType, fileName) ==
    IF mimeType # "application/pdf" THEN Threw("Invalid MIME type")
    ELSE IF extname(fileName) # DotPdf THEN Threw("Invalid file extension")
    ELSE IF ~StartsWith(buffer, SubSeq(PdfSignature, 1, 4))
    THEN Threw("Invalid PDF file")
    ELSE Returned("true")

\* validatePDF(fileBuffer, mimeType, fileName): resolves true or throws.
validatePDF(buffer, mimeType, fileName) ==
    IF mimeType # "application/pdf" THEN Threw("Invalid MIME type")
    ELSE IF extname(fileName) # DotPdf THEN Threw("Invalid file extension")
    ELSE IF ~StartsWith(buffer, PdfSignature) THEN Threw("Invalid PDF file")
    ELSE Returned("true")

\* The size limit of validateSizeFile, in bytes.
MAX_FILE_SIZE == 20 * 1024 * 1024

\* Variant: the limit itself is rejected (>= for >).
validateSizeFileExclusive(buffer) ==
    IF BufLen(buffer) >= MAX_FILE_SIZE
    THEN Threw("File exceeds maximum allowed size of 20MB")
    ELSE Returned("true")

\* validateSizeFile(fileBuffer): resolves true or throws.
validateSizeFile(buffer) ==
    IF BufLen(buffer) > MAX_FILE_SIZE
    THEN Threw("File exceeds maximum allowed size of 20MB")
    ELSE Returned("true")

----------------------------------------------------------------------------
(* The answers of the collaborators the handler awaits *)

\* authService.authenticate(client_id, client_secret)
AuthAnswers ==
    {Returned(v) : v \in {"true", "false", "undefined"}} \cup {Threw("Error")}

\* invoiceService.isPdfEncrypted(buffer), invoiceService.checkPdfIntegrity(buffer)
ScanAnswers ==
    {Returned(v) : v \in {"true", "false"}} \cup {Threw("Error")}

\* invoiceService.uploadInvoice(file)
UploadResults ==
    {[message |-> "Invoice upload service called"], [message |-> "stored"]}

UploadAnswers == {Returned(v) : v \in UploadResults} \cup {Threw("Error")}

----------------------------------------------------------------------------
(* Requests *)

Buf(fill, size) == [fill |-> fill, size |-> size]

ValidFill   == <<"%", "P", "D", "F", "-", "1", ".", "4">>
InvalidFill == <<"T", "h", "i", "s">>

ValidName == <<"v", ".", "p", "d", "f">>
TxtName   == <<"d", ".", "t", "x", "t">>

\* The files of the requests: req.file as multer leaves it.
SampleBuffers ==
    { Buf(ValidFill, 8), Buf(InvalidFill, 4),
      Buf(ValidFill, MAX_FILE_SIZE), Buf(ValidFill, MAX_FILE_SIZE + 1),
      Buf(InvalidFill, MAX_FILE_SIZE + 1) }

SampleFiles ==
    [buffer : SampleBuffers,
     originalname : {ValidName, TxtName},
     mimetype : {"application/pdf", "image/png"}]

\* req.body as the body parser leaves it.
Credentials ==
    { [client_id |-> "c1", client_secret |-> "s1"],
      [client_id |-> "c1", client_secret |-> "undefined"] }

\* A request: file and body are <<>> (undefined) or <<x>>; the query
\* parameter simulateTimeout is <<>> (absent) or <<string>>.
Requests ==
    [file : {<<>>} \cup {<<f>> : f \in SampleFiles},
     body : {<<>>} \cup {<<c>> : c \in Credentials},
     simulateTimeout : {<<>>, <<"true">>, <<"false">>, <<"TRUE">>}]

Reqs == DOMAIN req

----------------------------------------------------------------------------
(* invoiceController.uploadInvoice *)

Stages ==
    <<"authenticate", "validatePDF", "isPdfEncrypted", "checkPdfIntegrity",
      "validateSizeFile", "uploadInvoice">>

\* return res.status(status).json(body): the handler ends.
Respond(r, status, body) ==
    /\ resp' = [resp EXCEPT ![r] = Append(@, [status |-> status, body |-> body])]
    /\ pc' = [pc EXCEPT ![r] = "done"]

Message(m) == [message |-> m]

\* await <stage>(args): the call is made and the handler suspends.
Invoke(r, stage, args) ==
    /\ calls' = [calls EXCEPT ![r] = Append(@, [stage |-> stage, args |-> args])]
    /\ pc' = [pc EXCEPT ![r] = stage]
    /\ UNCHANGED resp

\* The awaited call settles with answer a.
Settle(r, a) == results' = [results EXCEPT ![r] = Append(@, a)]

\* Variant: the body is destructured before the file is checked.
UploadInvoiceBodyFirst(r) ==
    /\ pc[r] = "start"
    /\ IF req[r].body = <<>>
       THEN Respond(r, 500, Message("Internal server error")) /\ UNCHANGED calls
       ELSE IF req[r].file = <<>>
       THEN Respond(r, 400, Message("No file uploaded")) /\ UNCHANGED calls
       ELSE Invoke(r, "authenticate",
                   <<req[r].body[1].client_id, req[r].body[1].client_secret>>)
    /\ UNCHANGED <<req, results, probe, verdict>>

\* Variant: the simulateTimeout hook comes before the authentication.
UploadInvoiceHookFirst(r) ==
    /\ pc[r] = "start"
    /\ IF req[r].file = <<>>
       THEN Respond(r, 400, Message("No file uploaded")) /\ UNCHANGED calls
       ELSE IF req[r].body = <<>>
       THEN Respond(r, 500, Message("Internal server error")) /\ UNCHANGED calls
       ELSE IF req[r].simulateTimeout = <<"true">>
       THEN Respond(r, 504, Message("Server timeout during upload"))
            /\ UNCHANGED calls
       ELSE Invoke(r, "authenticate",
                   <<req[r].body[1].client_id, req[r].body[1].client_secret>>)
    /\ UNCHANGED <<req, results, probe, verdict>>

\* Lines 59-68: the file check, the destructuring, the call of authenticate.
UploadInvoice(r) ==
    /\ pc[r] = "start"
    /\ IF req[r].file = <<>>
       THEN Respond(r, 400, Message("No file uploaded")) /\ UNCHANGED calls
       ELSE IF req[r].body = <<>>
       THEN Respond(r, 500, Message("Internal server error")) /\ UNCHANGED calls
       ELSE Invoke(r, "authenticate",
                   <<req[r].body[1].client_id, req[r].body[1].client_secret>>)
    /\ UNCHANGED <<req, results, probe, verdict>>

\* Variant: only the answer false is rejected (isAuthorized === false).
AuthenticateReturnsStrictFalse(r) ==
    /\ pc[r] = "authenticate"
    /\ \E a \in AuthAnswers :
        /\ Settle(r, a)
        /\ IF a.threw
           THEN Respond(r, 500, Message("Internal Server Error")) /\ UNCHANGED calls
           ELSE IF a.value = "false"
           THEN Respond(r, 401, Message("Unauthorized")) /\ UNCHANGED calls
           ELSE IF req[r].simulateTimeout = <<"true">>
           THEN Respond(r, 504, Message("Server timeout during upload"))
                /\ UNCHANGED calls
           ELSE LET f == req[r].file[1]
                IN  Invoke(r, "validatePDF",
                           <<f.buffer, f.mimetype, f.originalname>>)
    /\ UNCHANGED <<req, probe, verdict>>

\* Variant: the simulateTimeout hook is missing.
AuthenticateReturnsNoHook(r) ==
    /\ pc[r] = "authenticate"
    /\ \E a \in AuthAnswers :
        /\ Settle(r, a)
        /\ IF a.threw
           THEN Respond(r, 500, Message("Internal Server Error")) /\ UNCHANGED calls
           ELSE IF ~Truthy(a.value)
           THEN Respond(r, 401, Message("Unauthorized")) /\ UNCHANGED calls
           ELSE LET f == req[r].file[1]
                IN  Invoke(r, "validatePDF",
                           <<f.buffer, f.mimetype, f.originalname>>)
    /\ UNCHANGED <<req, probe, verdict>>

\* Lines 68-81: authenticate settled; the timeout hook; the call of validatePDF.
AuthenticateReturns(r) ==
    /\ pc[r] = "authenticate"
    /\ \E a \in AuthAnswers :
        /\ Settle(r, a)
        /\ IF a.threw
           THEN Respond(r, 500, Message("Internal Server Error")) /\ UNCHANGED calls
           ELSE IF ~Truthy(a.value)
           THEN Respond(r, 401, Message("Unauthorized")) /\ UNCHANGED calls
           ELSE IF req[r].simulateTimeout = <<"true">>
           THEN Respond(r, 504, Message("Server timeout during upload"))
                /\ UNCHANGED calls
           ELSE LET f == req[r].file[1]
                IN  Invoke(r, "validatePDF",
                           <<f.buffer, f.mimetype, f.originalname>>)
    /\ UNCHANGED <<req, probe, verdict>>

\* Variant: the size is checked right after the format.
ValidatePDFReturnsSizeFirst(r) ==
    /\ pc[r] = "validatePDF"
    /\ LET f == req[r].file[1]
           a == validatePDF(f.buffer, f.mimetype, f.originalname)
       IN  /\ Settle(r, a)
           /\ IF a.threw
              THEN Respond(r, 415, Message("File format is not PDF"))
                   /\ UNCHANGED calls
              ELSE IF validateSizeFile(f.buffer).threw
              THEN Respond(r, 413, Message("File size exceeds maximum limit"))
                   /\ UNCHANGED calls
              ELSE Invoke(r, "isPdfEncrypted", <<f.buffer>>)
    /\ UNCHANGED <<req, probe, verdict>>

\* Lines 81-86: validatePDF settled; the call of isPdfEncrypted.
ValidatePDFReturns(r) ==
    /\ pc[r] = "validatePDF"
    /\ LET f == req[r].file[1]
           a == validatePDF(f.buffer, f.mimetype, f.originalname)
       IN  /\ Settle(r, a)
           /\ IF a.threw
              THEN Respond(r, 415, Message("File format is not PDF"))
                   /\ UNCHANGED calls
              ELSE Invoke(r, "isPdfEncrypted", <<f.buffer>>)
    /\ UNCHANGED <<req, probe, verdict>>

\* Variant: the response for an encrypted file is sent without return.
IsPdfEncryptedReturnsFallsThrough(r) ==
    /\ pc[r] = "isPdfEncrypted"
    /\ \E a \in ScanAnswers :
        /\ Settle(r, a)
        /\ IF a.threw
           THEN Respond(r, 500, Message("Internal server error")) /\ UNCHANGED calls
           ELSE /\ calls' = [calls EXCEPT ![r] =
                      Append(@, [stage |-> "checkPdfIntegrity",
                                 args |-> <<req[r].file[1].buffer>>])]
                /\ pc' = [pc EXCEPT ![r] = "checkPdfIntegrity"]
                /\ resp' = [resp EXCEPT ![r] =
                      IF Truthy(a.value)
                      THEN Append(@, [status |-> 400,
                                      body |-> Message("pdf is encrypted")])
                      ELSE @]
    /\ UNCHANGED <<req, probe, verdict>>

\* Variant: a fault of isPdfEncrypted is caught and only logged; the handler
\* ends without a response.
IsPdfEncryptedReturnsSwallowsFault(r) ==
    /\ pc[r] = "isPdfEncrypted"
    /\ \E a \in ScanAnswers :
        /\ Settle(r, a)
        /\ IF a.threw
           THEN pc' = [pc EXCEPT ![r] = "done"] /\ UNCHANGED <<resp, calls>>
           ELSE IF Truthy(a.value)
           THEN Respond(r, 400, Message("pdf is encrypted")) /\ UNCHANGED calls
           ELSE Invoke(r, "checkPdfIntegrity", <<req[r].file[1].buffer>>)
    /\ UNCHANGED <<req, probe, verdict>>

\* Lines 86-91: isPdfEncrypted settled; the call of checkPdfIntegrity.
IsPdfEncryptedReturns(r) ==
    /\ pc[r] = "isPdfEncrypted"
    /\ \E a \in ScanAnswers :
        /\ Settle(r, a)
        /\ IF a.threw
           THEN Respond(r, 500, Message("Internal server error")) /\ UNCHANGED calls
           ELSE IF Truthy(a.value)
           THEN Respond(r, 400, Message("pdf is encrypted")) /\ UNCHANGED calls
           ELSE Invoke(r, "checkPdfIntegrity", <<req[r].file[1].buffer>>)
    /\ UNCHANGED <<req, probe, verdict>>

\* Variant: the message of the encryption branch is reused.
CheckPdfIntegrityReturnsCopiedMessage(r) ==
    /\ pc[r] = "checkPdfIntegrity"
    /\ \E a \in ScanAnswers :
        /\ Settle(r, a)
        /\ IF a.threw
           THEN Respond(r, 500, Message("Internal server error")) /\ UNCHANGED calls
           ELSE IF ~Truthy(a.value)
           THEN Respond(r, 400, Message("pdf is encrypted")) /\ UNCHANGED calls
           ELSE Invoke(r, "validateSizeFile", <<req[r].file[1].buffer>>)
    /\ UNCHANGED <<req, probe, verdict>>

\* Lines 91-97: checkPdfIntegrity settled; the call of validateSizeFile.
CheckPdfIntegrityReturns(r) ==
    /\ pc[r] = "checkPdfIntegrity"
    /\ \E a \in ScanAnswers :
        /\ Settle(r, a)
        /\ IF a.threw
           THEN Respond(r, 500, Message("Internal server error")) /\ UNCHANGED calls
           ELSE IF ~Truthy(a.value)
           THEN Respond(r, 400, Message("PDF file is invalid")) /\ UNCHANGED calls
           ELSE Invoke(r, "validateSizeFile", <<req[r].file[1].buffer>>)
    /\ UNCHANGED <<req, probe, verdict>>

\* Variant: buffer is a module-level variable, so the size checked is that of
\* the file of whichever request destructured req.file last.
ValidateSizeFileReturnsSharedBuffer(r) ==
    /\ pc[r] = "validateSizeFile"
    /\ \E q \in {x \in Reqs : pc[x] # "start" /\ req[x].file # <<>>} :
        LET a == validateSizeFile(req[q].file[1].buffer)
        IN  /\ Settle(r, a)
            /\ IF a.threw
               THEN Respond(r, 413, Message("File size exceeds maximum limit"))
                    /\ UNCHANGED calls
               ELSE Invoke(r, "uploadInvoice", <<req[r].file[1]>>)
    /\ UNCHANGED <<req, probe, verdict>>

\* Variant: the 413 response is sent without return.
ValidateSizeFileReturnsFallsThrough(r) ==
    /\ pc[r] = "validateSizeFile"
    /\ LET a == validateSizeFile(req[r].file[1].buffer)
       IN  /\ Settle(r, a)
           /\ calls' = [calls EXCEPT ![r] =
                 Append(@, [stage |-> "uploadInvoice", args |-> <<req[r].file[1]>>])]
           /\ pc' = [pc EXCEPT ![r] = "uploadInvoice"]
           /\ resp' = [resp EXCEPT ![r] =
                 IF a.threw
                 THEN Append(@, [status |-> 413,
                                 body |-> Message("File size exceeds maximum limit")])
                 ELSE @]
    /\ UNCHANGED <<req, probe, verdict>>

\* Lines 97-102: validateSizeFile settled; the call of uploadInvoice(req.file).
ValidateSizeFileReturns(r) ==
    /\ pc[r] = "validateSizeFile"
    /\ LET a == validateSizeFile(req[r].file[1].buffer)
       IN  /\ Settle(r, a)
           /\ IF a.threw
              THEN Respond(r, 413, Message("File size exceeds maximum limit"))
                   /\ UNCHANGED calls
              ELSE Invoke(r, "uploadInvoice", <<req[r].file[1]>>)
    /\ UNCHANGED <<req, probe, verdict>>

\* Variant: the body of the 501 response is a fixed message.
UploadReturnsFixedBody(r) ==
    /\ pc[r] = "uploadInvoice"
    /\ \E a \in UploadAnswers :
        /\ Settle(r, a)
        /\ IF a.threw
           THEN Respond(r, 500, Message("Internal server error"))
           ELSE Respond(r, 501, Message("Invoice upload service called"))
    /\ UNCHANGED <<req, calls, probe, verdict>>

\* Variant: no outer catch; a rejection of the upload leaves the handler
\* without a response.
UploadReturnsUncaught(r) ==
    /\ pc[r] = "uploadInvoice"
    /\ \E a \in UploadAnswers :
        /\ Settle(r, a)
        /\ IF a.threw
           THEN pc' = [pc EXCEPT ![r] = "done"] /\ UNCHANGED resp
           ELSE Respond(r, 501, a.value)
    /\ UNCHANGED <<req, calls, probe, verdict>>

\* Variant: a rejected upload is tried once more.
UploadReturnsRetriesOnce(r) ==
    /\ pc[r] = "uploadInvoice"
    /\ \E a \in UploadAnswers :
        /\ Settle(r, a)
        /\ IF a.threw /\ Len(calls[r]) = 6
           THEN Invoke(r, "uploadInvoice", <<req[r].file[1]>>)
           ELSE IF a.threw
           THEN Respond(r, 500, Message("Internal server error")) /\ UNCHANGED calls
           ELSE Respond(r, 501, a.value) /\ UNCHANGED calls
    /\ UNCHANGED <<req, probe, verdict>>

\* Lines 102-106: uploadInvoice(req.file) settled.
UploadReturns(r) ==
    /\ pc[r] = "uploadInvoice"
    /\ \E a \in UploadAnswers :
        /\ Settle(r, a)
        /\ IF a.threw
           THEN Respond(r, 500, Message("Internal server error"))
           ELSE Respond(r, 501, a.value)
    /\ UNCHANGED <<req, calls, probe, verdict>>

----------------------------------------------------------------------------
(* One request handled by uploadInvoice *)

NoProbe == <<>>

Init ==
    /\ req \in [{1} -> Requests]
    /\ pc = [r \in {1} |-> "start"]
    /\ calls = [r \in {1} |-> <<>>]
    /\ results = [r \in {1} |-> <<>>]
    /\ resp = [r \in {1} |-> <<>>]
    /\ probe = NoProbe
    /\ verdict = NoProbe

Next ==
    \E r \in Reqs :
        \/ UploadInvoice(r)
        \/ AuthenticateReturns(r)
        \/ ValidatePDFReturns(r)
        \/ IsPdfEncryptedReturns(r)
        \/ CheckPdfIntegrityReturns(r)
        \/ ValidateSizeFileReturns(r)
        \/ UploadReturns(r)

Spec == Init /\ [][Next]_vars

----------------------------------------------------------------------------
(* Concurrent requests: the handlers interleave at their awaits *)

NumRequests == 2

\* One request for each outcome of the handler.
ConcurrentRequests ==
    LET file(b, n, m) == <<[buffer |-> b, originalname |-> n, mimetype |-> m]>>
        valid == file(Buf(ValidFill, 8), ValidName, "application/pdf")
        body  == <<[client_id |-> "c1", client_secret |-> "s1"]>>
        request(f, b, t) == [file |-> f, body |-> b, simulateTimeout |-> t]
    IN  { request(<<>>, body, <<>>),
          request(valid, <<>>, <<>>),
          request(valid, body, <<"true">>),
          request(valid, body, <<>>),
          request(file(Buf(InvalidFill, 4), ValidName, "application/pdf"),
                  body, <<>>),
          request(file(Buf(ValidFill, MAX_FILE_SIZE + 1), ValidName,
                       "application/pdf"), body, <<>>) }

InitConcurrent ==
    /\ req \in [1..NumRequests -> ConcurrentRequests]
    /\ pc = [r \in 1..NumRequests |-> "start"]
    /\ calls = [r \in 1..NumRequests |-> <<>>]
    /\ results = [r \in 1..NumRequests |-> <<>>]
    /\ resp = [r \in 1..NumRequests |-> <<>>]
    /\ probe = NoProbe
    /\ verdict = NoProbe

SpecConcurrent == InitConcurrent /\ [][Next]_vars

----------------------------------------------------------------------------
(* validatePDF called directly, as the unit tests of the service call it *)

SeqsUpTo(S, n) == UNION {[1..k -> S] : k \in 0..n}

NameAlphabet == {".", "/", "p", "d", "f"}

ProbeNames == SeqsUpTo(NameAlphabet, MaxNameLen)

ProbeMimes == {"application/pdf", "image/png", "application/PDF"}

\* The signature with its k-th byte replaced (k = 0: the signature itself).
Damaged(k) == [i \in 1..Len(PdfSignature) |->
                  IF i = k THEN "x" ELSE PdfSignature[i]]

ProbeBuffers ==
    {Buf(Damaged(k), n) : k \in 0..Len(PdfSignature), n \in {4, 5, 6}}

FormatProbes ==
    [buffer : ProbeBuffers, mimeType : ProbeMimes, fileName : ProbeNames]

InitFormat ==
    /\ probe \in FormatProbes
    /\ verdict = NoProbe
    /\ req = <<>>
    /\ pc = <<>>
    /\ calls = <<>>
    /\ results = <<>>
    /\ resp = <<>>

\* await invoiceService.validatePDF(buffer, mimeType, fileName)
CallValidatePDF ==
    /\ verdict = NoProbe
    /\ verdict' = validatePDF(probe.buffer, probe.mimeType, probe.fileName)
    /\ UNCHANGED <<req, pc, calls, results, resp, probe>>

NextFormat == CallValidatePDF

SpecFormat == InitFormat /\ [][NextFormat]_vars

----------------------------------------------------------------------------
(* Vocabulary of the properties *)

\* The answer a of a stage lets the handler go on to the next stage.
StagePassed(stage, a) ==
    /\ ~a.threw
    /\ stage = "authenticate" => a.value \notin {"false", "undefined"}
    /\ stage = "isPdfEncrypted" => a.value = "false"
    /\ stage = "checkPdfIntegrity" => a.value = "true"

AllPassed(r) ==
    \A i \in 1..Len(results[r]) : StagePassed(Stages[i], results[r][i])

\* The first n bytes of a buffer (all of them if it is shorter).
Prefix(buffer, n) ==
    [i \in 1..(IF buffer.size < n THEN buffer.size ELSE n) |->
        buffer.fill[((i - 1) % Len(buffer.fill)) + 1]]

BeginsWithSignature(buffer) == Prefix(buffer, 5) = <<"%", "P", "D", "F", "-">>

\* name ends, trailing "/" aside, with <stem>.pdf where the stem has at least
\* one character and lies in the same path component
HasPdfExtension(name) ==
    \E j \in 5..Len(name) :
        /\ SubSeq(name, j - 3, j) = <<".", "p", "d", "f">>
        /\ name[j - 4] # "/"
        /\ \A k \in (j + 1)..Len(name) : name[k] = "/"

IsPdfFile(f) ==
    /\ f.mimetype = "application/pdf"
    /\ HasPdfExtension(f.originalname)
    /\ BeginsWithSignature(f.buffer)

TooLarge(f) == f.buffer.size > 20 * 1024 * 1024

Answered(r, status, body) ==
    /\ pc[r] = "done"
    /\ resp[r] = <<[status |-> status, body |-> body]>>

----------------------------------------------------------------------------
(* C1 *)

\* C1: the collaborators of a request are invoked in the order authenticate,
\* validatePDF, isPdfEncrypted, checkPdfIntegrity, validateSizeFile,
\* uploadInvoice; a stage is invoked only when every earlier stage has been
\* invoked and has passed, so after a failing stage none is invoked.
C1_StageOrder ==
    \A r \in Reqs :
        /\ Len(calls[r]) <= Len(Stages)
        /\ \A i \in 1..Len(calls[r]) : calls[r][i].stage = Stages[i]
        /\ Len(results[r]) <= Len(calls[r])
        /\ \A i \in 1..(Len(calls[r]) - 1) :
              /\ i <= Len(results[r])
              /\ StagePassed(Stages[i], results[r][i])

\* The integrity check answered false after three passing stages.
C1_Witness ==
    \E r \in Reqs :
        /\ pc[r] = "done"
        /\ Len(calls[r]) = 4
        /\ Len(results[r]) = 4
        /\ ~StagePassed(Stages[4], results[r][4])

----------------------------------------------------------------------------
(* C2 *)

\* C2: a request with a body, without simulateTimeout = 'true', whose file is
\* a PDF within the size limit and whose collaborators all pass ends with the
\* upload collaborator called with the file and status 501 carrying its
\* result; and status 501 is sent only after authenticate and the four
\* validators passed and the upload collaborator returned.
C2_ReachesUpload ==
    \A r \in Reqs :
        /\ ( /\ pc[r] = "done"
             /\ req[r].file # <<>>
             /\ req[r].body # <<>>
             /\ req[r].simulateTimeout # <<"true">>
             /\ IsPdfFile(req[r].file[1])
             /\ ~TooLarge(req[r].file[1])
             /\ AllPassed(r) )
           => /\ Len(calls[r]) = 6
              /\ calls[r][6] = [stage |-> "uploadInvoice", args |-> <<req[r].file[1]>>]
              /\ Len(results[r]) = 6
              /\ resp[r] = <<[status |-> 501, body |-> results[r][6].value]>>
        /\ \A k \in 1..Len(resp[r]) :
              resp[r][k].status = 501
              => /\ Len(calls[r]) = 6
                 /\ Len(results[r]) = 6
                 /\ AllPassed(r)
                 /\ IsPdfFile(req[r].file[1])
                 /\ ~TooLarge(req[r].file[1])
                 /\ resp[r][k].body = results[r][6].value

C2_Witness ==
    \E r \in Reqs :
        /\ Len(results[r]) = 6
        /\ Answered(r, 501, [message |-> "stored"])

----------------------------------------------------------------------------
(* C3 *)

\* C3: a request without a file is answered 400 "No file uploaded" and no
\* collaborator is ever called for it, whatever its body and query.
C3_NoFile ==
    \A r \in Reqs :
        req[r].file = <<>>
        => /\ calls[r] = <<>>
           /\ results[r] = <<>>
           /\ pc[r] \in {"start", "done"}
           /\ pc[r] = "start" => resp[r] = <<>>
           /\ pc[r] = "done" => Answered(r, 400, [message |-> "No file uploaded"])

C3_Witness ==
    \E r \in Reqs :
        /\ req[r].file = <<>>
        /\ req[r].body = <<>>
        /\ req[r].simulateTimeout = <<"true">>
        /\ pc[r] = "done"

----------------------------------------------------------------------------
(* C4 *)

\* C4: with a file, a falsy answer of authenticate gives 401 Unauthorized and
\* a fault of authenticate gives 500 with a generic message; in both cases
\* authenticate is the only collaborator called.
C4_AuthFailure ==
    \A r \in Reqs :
        (Len(results[r]) >= 1 /\ ~StagePassed("authenticate", results[r][1]))
        => /\ req[r].file # <<>>
           /\ Len(calls[r]) = 1
           /\ Len(results[r]) = 1
           /\ IF results[r][1].threw
              THEN Answered(r, 500, [message |-> "Internal Server Error"])
              ELSE Answered(r, 401, [message |-> "Unauthorized"])

\* authenticate answered undefined
C4_Witness ==
    \E r \in Reqs :
        /\ Len(results[r]) = 1
        /\ results[r][1] = [threw |-> FALSE, value |-> "undefined"]
        /\ pc[r] = "done"

----------------------------------------------------------------------------
(* C5 *)

\* C5: with a file, an accepting authenticate and simulateTimeout = 'true',
\* the response is 504 and nothing but authenticate is called, whatever the
\* file holds.
C5_Timeout ==
    \A r \in Reqs :
        ( /\ Len(results[r]) >= 1
          /\ StagePassed("authenticate", results[r][1])
          /\ req[r].simulateTimeout = <<"true">> )
        => /\ pc[r] = "done"
           /\ Len(resp[r]) = 1
           /\ resp[r][1].status = 504
           /\ Len(calls[r]) = 1
           /\ Len(results[r]) = 1

\* the timeout answered for a file that is no PDF and is too large
C5_Witness ==
    \E r \in Reqs :
        /\ req[r].simulateTimeout = <<"true">>
        /\ req[r].file # <<>>
        /\ ~IsPdfFile(req[r].file[1])
        /\ TooLarge(req[r].file[1])
        /\ Len(resp[r]) = 1
        /\ resp[r][1].status = 504

----------------------------------------------------------------------------
(* C6 *)

FormatErrors == {"Invalid MIME type", "Invalid file extension", "Invalid PDF file"}

\* C6: for an authenticated request without the timeout flag the status is
\* that of the first failing validator: format 415, encrypted 400, integrity
\* false 400, size 413; a file failing several checks gets the status of the
\* earliest failing stage.
C6_FirstFailure ==
    \A r \in Reqs :
        (pc[r] = "done" /\ Len(results[r]) >= 2)
        => LET f == req[r].file[1]
               n == Len(results[r])
               a == results[r]
           IN  /\ Len(resp[r]) = 1
               /\ a[2].threw <=> ~IsPdfFile(f)
               /\ IF a[2].threw
                  THEN /\ a[2].message \in FormatErrors
                       /\ resp[r][1].status = 415
                       /\ n = 2
                  ELSE IF n >= 3 /\ ~a[3].threw /\ a[3].value = "true"
                  THEN resp[r][1].status = 400 /\ n = 3
                  ELSE IF n >= 4 /\ ~a[4].threw /\ a[4].value = "false"
                  THEN resp[r][1].status = 400 /\ n = 4
                  ELSE IF n >= 5
                  THEN /\ a[5].threw <=> TooLarge(f)
                       /\ a[5].threw => resp[r][1].status = 413 /\ n = 5
                  ELSE a[n].threw
               /\ resp[r][1].status = 415 <=> a[2].threw
               /\ resp[r][1].status = 413 <=> (n = 5 /\ TooLarge(f))
               /\ resp[r][1].status = 400
                  <=> \/ n = 3 /\ ~a[3].threw /\ a[3].value = "true"
                      \/ n = 4 /\ ~a[4].threw /\ a[4].value = "false"

\* an encrypted file that is also too large is answered 400
C6_Witness ==
    \E r \in Reqs :
        /\ pc[r] = "done"
        /\ Len(results[r]) = 3
        /\ results[r][3] = [threw |-> FALSE, value |-> "true"]
        /\ TooLarge(req[r].file[1])
        /\ resp[r][1].status = 400

----------------------------------------------------------------------------
(* C7 *)

\* C7: a fault outside the explicit failure branches (isPdfEncrypted,
\* checkPdfIntegrity or the upload collaborator throwing, or a request with a
\* file and no body) is answered 500 "Internal server error" and nothing else.
C7_UniformFault ==
    \A r \in Reqs :
        /\ (req[r].file # <<>> /\ req[r].body = <<>> /\ pc[r] # "start")
           => Answered(r, 500, [message |-> "Internal server error"]) /\ calls[r] = <<>>
        /\ \A i \in {3, 4, 6} :
              (i <= Len(results[r]) /\ results[r][i].threw)
              => /\ Answered(r, 500, [message |-> "Internal server error"])
                 /\ Len(results[r]) = i
                 /\ Len(calls[r]) = i

\* the upload collaborator rejected
C7_Witness ==
    \E r \in Reqs :
        /\ Len(results[r]) = 6
        /\ results[r][6].threw
        /\ pc[r] = "done"

----------------------------------------------------------------------------
(* C8 *)

\* The error kind of a request, from the branch its handler took.
Kind(r) ==
    LET a == results[r]
        n == Len(results[r])
    IN  IF req[r].file = <<>> THEN "NoFileUploaded"
        ELSE IF req[r].body = <<>> THEN "InternalError"
        ELSE IF n = 1 /\ a[1].threw THEN "InternalError"
        ELSE IF n = 1 /\ ~StagePassed("authenticate", a[1]) THEN "Unauthorized"
        ELSE IF n = 1 THEN "ServerTimeout"
        ELSE IF n = 2 THEN "UnsupportedFormat"
        ELSE IF n = 3 /\ a[3].threw THEN "InternalError"
        ELSE IF n = 3 THEN "EncryptedDocument"
        ELSE IF n = 4 /\ a[4].threw THEN "InternalError"
        ELSE IF n = 4 THEN "CorruptDocument"
        ELSE IF n = 5 THEN "FileTooLarge"
        ELSE IF a[6].threw THEN "InternalError"
        ELSE "None"

\* r ended with a failure response
Failed(r) == pc[r] = "done" /\ Len(resp[r]) = 1 /\ Kind(r) # "None"

SharedStatusKinds == {"NoFileUploaded", "EncryptedDocument", "CorruptDocument"}

\* C8 as stated: two failure responses with the same status have the same
\* error kind.
C8_StatusIdentifiesKind ==
    \A r1, r2 \in Reqs :
        (Failed(r1) /\ Failed(r2) /\ resp[r1][1].status = resp[r2][1].status)
        => Kind(r1) = Kind(r2)

\* C8, amended: the status is a function of the error kind; two failure
\* responses with the same status have the same kind unless the status is
\* 400, which NoFileUploaded, EncryptedDocument and CorruptDocument share and
\* no other kind uses; two failure responses with the same status and message
\* have the same kind.
C8_StatusPerKind ==
    \A r1, r2 \in Reqs :
        (Failed(r1) /\ Failed(r2))
        => /\ Kind(r1) = Kind(r2) => resp[r1][1].status = resp[r2][1].status
           /\ resp[r1][1].status = 400 <=> Kind(r1) \in SharedStatusKinds
           /\ (resp[r1][1].status = resp[r2][1].status /\ resp[r1][1].status # 400)
              => Kind(r1) = Kind(r2)
           /\ resp[r1][1] = resp[r2][1] => Kind(r1) = Kind(r2)

\* an encrypted document and a request without a file, both answered 400
C8_Witness ==
    \E r1, r2 \in Reqs :
        /\ Failed(r1) /\ Failed(r2)
        /\ Kind(r1) = "EncryptedDocument"
        /\ Kind(r2) = "NoFileUploaded"
        /\ resp[r1][1].status = resp[r2][1].status

----------------------------------------------------------------------------
(* C9 *)

Called == verdict # NoProbe

\* C9: validatePDF reports the first failing check in the order MIME type,
\* extension, content, and resolves true when none fails.
C9_FormatOrder ==
    Called
    => verdict =
         IF probe.mimeType # "application/pdf"
         THEN [threw |-> TRUE, message |-> "Invalid MIME type"]
         ELSE IF ~HasPdfExtension(probe.fileName)
         THEN [threw |-> TRUE, message |-> "Invalid file extension"]
         ELSE IF ~BeginsWithSignature(probe.buffer)
         THEN [threw |-> TRUE, message |-> "Invalid PDF file"]
         ELSE [threw |-> FALSE, value |-> "true"]

\* wrong MIME type, wrong extension and wrong content at once
C9_Witness ==
    /\ Called
    /\ probe.mimeType # "application/pdf"
    /\ ~HasPdfExtension(probe.fileName)
    /\ ~BeginsWithSignature(probe.buffer)
    /\ verdict.threw

----------------------------------------------------------------------------
(* C10 *)

\* C10 as stated: content that does not begin with %PDF- fails with
\* "Invalid PDF file" whatever the MIME type and the extension.
C10_ContentAlwaysReported ==
    (Called /\ ~BeginsWithSignature(probe.buffer))
    => verdict = [threw |-> TRUE, message |-> "Invalid PDF file"]

\* C10, amended: content that does not begin with %PDF- always fails, and
\* fails with "Invalid PDF file" exactly when the MIME type and the extension
\* are both correct.
C10_ContentRejected ==
    (Called /\ ~BeginsWithSignature(probe.buffer))
    => /\ verdict.threw
       /\ verdict.message = "Invalid PDF file"
          <=> (probe.mimeType = "application/pdf" /\ HasPdfExtension(probe.fileName))

\* only the last byte of the signature is wrong, MIME type and extension are right
C10_Witness ==
    /\ Called
    /\ Prefix(probe.buffer, 4) = <<"%", "P", "D", "F">>
    /\ ~BeginsWithSignature(probe.buffer)
    /\ probe.buffer.size >= 5
    /\ probe.mimeType = "application/pdf"
    /\ HasPdfExtension(probe.fileName)
    /\ verdict = [threw |-> TRUE, message |-> "Invalid PDF file"]

----------------------------------------------------------------------------
(* validateSizeFile called directly and through the handler *)

ProbeSizes ==
    {0, 1, 10 * 1024 * 1024, 21 * 1024 * 1024}
        \cup ((MAX_FILE_SIZE - SizeSpread)..(MAX_FILE_SIZE + SizeSpread))

SizeProbes == [buffer : {Buf(f, n) : f \in {ValidFill, InvalidFill}, n \in ProbeSizes}]

\* The same buffer is given to validateSizeFile and uploaded in a request.
InitSize ==
    /\ probe \in SizeProbes
    /\ verdict = NoProbe
    /\ req = [r \in {1} |->
                [file |-> <<[buffer |-> probe.buffer, originalname |-> ValidName,
                            mimetype |-> "application/pdf"]>>,
                 body |-> <<[client_id |-> "c1", client_secret |-> "s1"]>>,
                 simulateTimeout |-> <<>>]]
    /\ pc = [r \in {1} |-> "start"]
    /\ calls = [r \in {1} |-> <<>>]
    /\ results = [r \in {1} |-> <<>>]
    /\ resp = [r \in {1} |-> <<>>]

\* await invoiceService.validateSizeFile(fileBuffer)
CallValidateSizeFile ==
    /\ verdict = NoProbe
    /\ verdict' = validateSizeFile(probe.buffer)
    /\ UNCHANGED <<req, pc, calls, results, resp, probe>>

NextSize == CallValidateSizeFile \/ Next

SpecSize == InitSize /\ [][NextSize]_vars

----------------------------------------------------------------------------
(* C11 *)

\* C11: validateSizeFile resolves true exactly for the buffers of at most
\* 20 * 1024 * 1024 bytes and throws for every longer one; in the handler a
\* throw of validateSizeFile gives 413 and the upload collaborator is not
\* called.
C11_SizeLimit ==
    /\ Called
       => verdict =
            IF probe.buffer.size <= 20 * 1024 * 1024
            THEN [threw |-> FALSE, value |-> "true"]
            ELSE [threw |-> TRUE,
                  message |-> "File exceeds maximum allowed size of 20MB"]
    /\ \A r \in Reqs :
          Len(results[r]) >= 5
          => /\ results[r][5].threw <=> req[r].file[1].buffer.size > 20 * 1024 * 1024
             /\ results[r][5].threw
                => /\ Answered(r, 413, [message |-> "File size exceeds maximum limit"])
                   /\ Len(calls[r]) = 5
             /\ ~results[r][5].threw
                => /\ Len(calls[r]) = 6
                   /\ \A k \in 1..Len(resp[r]) : resp[r][k].status # 413

\* one byte over the limit: rejected directly and answered 413
C11_Witness ==
    /\ Called
    /\ probe.buffer.size = 20 * 1024 * 1024 + 1
    /\ verdict.threw
    /\ \E r \in Reqs :
          /\ Len(calls[r]) = 5
          /\ pc[r] = "done"
          /\ resp[r][1].status = 413

\* exactly the limit: accepted directly and handed to the upload collaborator
C11_WitnessEdge ==
    /\ Called
    /\ probe.buffer.size = 20 * 1024 * 1024
    /\ ~verdict.threw
    /\ \E r \in Reqs : Len(calls[r]) = 6

----------------------------------------------------------------------------
(* invoiceServices.isPdfEncrypted *)

MaxChunks == 2

EncryptMarker == << "/", "E", "n", "c", "r", "y", "p", "t" >>

StandardFilterMarker ==
    << "/", "F", "i", "l", "t", "e", "r", "/", "S", "t", "a", "n", "d", "a", "r", "d" >>

\* pat occurs in buffer at index i (1-based)
MatchesAt(buffer, pat, i) ==
    /\ i + Len(pat) - 1 <= BufLen(buffer)
    /\ \A j \in 1..Len(pat) : ByteAt(buffer, i + j - 1) = pat[j]

\* Variant: the scan stops one position early and misses a marker that ends
\* the buffer.
indexOfStopsEarly(buffer, pat, from) ==
    LET hits == {i \in from..(BufLen(buffer) - Len(pat)) :
                    MatchesAt(buffer, pat, i)}
    IN  IF hits = {} THEN -1 ELSE CHOOSE i \in hits : \A k \in hits : i <= k

\* buffer.indexOf(pat, from): the first index at or after from where pat
\* occurs, -1 if there is none.
indexOf(buffer, pat, from) ==
    LET hits == {i \in from..(BufLen(buffer) - Len(pat) + 1) :
                    MatchesAt(buffer, pat, i)}
    IN  IF hits = {} THEN -1 ELSE CHOOSE i \in hits : \A k \in hits : i <= k

includes(buffer, pat) == indexOf(buffer, pat, 1) # -1

\* isPdfEncrypted(pdfBuffer): resolves true when an encryption marker occurs
\* in the bytes, false otherwise.
isPdfEncrypted(buffer) ==
    IF includes(buffer, EncryptMarker) \/ includes(buffer, StandardFilterMarker)
    THEN Returned("true")
    ELSE Returned("false")

----------------------------------------------------------------------------
(* isPdfEncrypted called directly, as its unit tests call it *)

unencryptedPdfBuffer ==
    << "%", "P", "D", "F", "-", "1", ".", "3", "\n", "1", " ", "0", " ",
      "o", "b", "j", "\n", "<", "<", "/", "T", "y", "p", "e", "/", "C", "a",
      "t", "a", "l", "o", "g", "/", "P", "a", "g", "e", "s", " ", "2", " ",
      "0", " ", "R", ">", ">", "\n", "e", "n", "d", "o", "b", "j", "\n",
      "2", " ", "0", " ", "o", "b", "j", "\n", "<", "<", "/", "T", "y", "p",
      "e", "/", "P", "a", "g", "e", "s", "/", "K", "i", "d", "s", "[", "3",
      " ", "0", " ", "R", "]", "/", "C", "o", "u", "n", "t", " ", "1", ">",
      ">", "\n", "e", "n", "d", "o", "b", "j", "\n", "3", " ", "0", " ",
      "o", "b", "j", "\n", "<", "<", "/", "T", "y", "p", "e", "/", "P", "a",
      "g", "e", "/", "M", "e", "d", "i", "a", "B", "o", "x", "[", "0", " ",
      "0", " ", "5", "9", "5", " ", "8", "4", "2", "]", "/", "P", "a", "r",
      "e", "n", "t", " ", "2", " ", "0", " ", "R", "/", "R", "e", "s", "o",
      "u", "r", "c", "e", "s", "<", "<", ">", ">", ">", ">", "\n", "e", "n",
      "d", "o", "b", "j", "\n", "x", "r", "e", "f", "\n", "0", " ", "4",
      "\n", "0", "0", "0", "0", "0", "0", "0", "0", "0", "0", " ", "6", "5",
      "5", "3", "5", " ", "f", "\n", "0", "0", "0", "0", "0", "0", "0", "0",
      "1", "0", " ", "0", "0", "0", "0", "0", " ", "n", "\n", "0", "0", "0",
      "0", "0", "0", "0", "0", "5", "3", " ", "0", "0", "0", "0", "0", " ",
      "n", "\n", "0", "0", "0", "0", "0", "0", "0", "1", "0", "2", " ", "0",
      "0", "0", "0", "0", " ", "n", "\n", "t", "r", "a", "i", "l", "e", "r",
      "\n", "<", "<", "/", "S", "i", "z", "e", " ", "4", "/", "R", "o", "o",
      "t", " ", "1", " ", "0", " ", "R", ">", ">", "\n", "s", "t", "a", "r",
      "t", "x", "r", "e", "f", "\n", "1", "7", "8", "\n", "%", "%", "E",
      "O", "F" >>

encryptedPdfBuffer ==
    << "%", "P", "D", "F", "-", "1", ".", "3", "\n", "1", " ", "0", " ",
      "o", "b", "j", "\n", "<", "<", "/", "T", "y", "p", "e", "/", "C", "a",
      "t", "a", "l", "o", "g", "/", "P", "a", "g", "e", "s", " ", "2", " ",
      "0", " ", "R", ">", ">", "\n", "e", "n", "d", "o", "b", "j", "\n",
      "2", " ", "0", " ", "o", "b", "j", "\n", "<", "<", "/", "T", "y", "p",
      "e", "/", "P", "a", "g", "e", "s", "/", "K", "i", "d", "s", "[", "3",
      " ", "0", " ", "R", "]", "/", "C", "o", "u", "n", "t", " ", "1", ">",
      ">", "\n", "e", "n", "d", "o", "b", "j", "\n", "3", " ", "0", " ",
      "o", "b", "j", "\n", "<", "<", "/", "T", "y", "p", "e", "/", "P", "a",
      "g", "e", "/", "M", "e", "d", "i", "a", "B", "o", "x", "[", "0", " ",
      "0", " ", "5", "9", "5", " ", "8", "4", "2", "]", "/", "P", "a", "r",
      "e", "n", "t", " ", "2", " ", "0", " ", "R", "/", "R", "e", "s", "o",
      "u", "r", "c", "e", "s", "<", "<", ">", ">", ">", ">", "\n", "e", "n",
      "d", "o", "b", "j", "\n", "4", " ", "0", " ", "o", "b", "j", "\n",
      "<", "<", "/", "F", "i", "l", "t", "e", "r", "/", "S", "t", "a", "n",
      "d", "a", "r", "d", "/", "V", " ", "1", "/", "R", " ", "2", "/", "O",
      "<", "1", "2", "3", "4", "5", "6", "7", "8", "9", "0", "A", "B", "C",
      "D", "E", "F", "1", "2", "3", "4", "5", "6", "7", "8", "9", "0", "A",
      "B", "C", "D", "E", "F", ">", "/", "U", "<", "A", "B", "C", "D", "E",
      "F", "1", "2", "3", "4", "5", "6", "7", "8", "9", "0", "A", "B", "C",
      "D", "E", "F", "1", "2", "3", "4", "5", "6", "7", "8", "9", "0", ">",
      "/", "P", " ", "-", "3", "9", "0", "4", ">", ">", "\n", "e", "n", "d",
      "o", "b", "j", "\n", "x", "r", "e", "f", "\n", "0", " ", "5", "\n",
      "0", "0", "0", "0", "0", "0", "0", "0", "0", "0", " ", "6", "5", "5",
      "3", "5", " ", "f", "\n", "0", "0", "0", "0", "0", "0", "0", "0", "1",
      "0", " ", "0", "0", "0", "0", "0", " ", "n", "\n", "0", "0", "0", "0",
      "0", "0", "0", "0", "5", "3", " ", "0", "0", "0", "0", "0", " ", "n",
      "\n", "0", "0", "0", "0", "0", "0", "0", "1", "0", "2", " ", "0", "0",
      "0", "0", "0", " ", "n", "\n", "0", "0", "0", "0", "0", "0", "0", "1",
      "8", "3", " ", "0", "0", "0", "0", "0", " ", "n", "\n", "t", "r", "a",
      "i", "l", "e", "r", "\n", "<", "<", "/", "S", "i", "z", "e", " ", "5",
      "/", "R", "o", "o", "t", " ", "1", " ", "0", " ", "R", "/", "E", "n",
      "c", "r", "y", "p", "t", " ", "4", " ", "0", " ", "R", ">", ">", "\n",
      "s", "t", "a", "r", "t", "x", "r", "e", "f", "\n", "2", "9", "1",
      "\n", "%", "%", "E", "O", "F" >>

\* The pieces the generated byte streams are put together from.
Chunks ==
    { PdfSignature, EncryptMarker, StandardFilterMarker,
      SubSeq(EncryptMarker, 1, 7), SubSeq(EncryptMarker, 8, 8),
      SubSeq(StandardFilterMarker, 1, 7), SubSeq(StandardFilterMarker, 8, 16),
      << "t", "r", "a", "i", "l", "e", "r" >>,
      <<" ">> }

RECURSIVE Streams(_)
Streams(n) ==
    IF n = 0 THEN {<<>>}
    ELSE LET shorter == Streams(n - 1)
         IN  shorter \cup {s \o c : s \in shorter, c \in Chunks}

\* The two documents of the tests; each stream whole, cut one byte short, and
\* repeated to twice its length.
EncryptionProbes ==
    [buffer :
        {Buf(f, Len(f)) : f \in {unencryptedPdfBuffer, encryptedPdfBuffer}}
        \cup UNION {{Buf(f, Len(f)), Buf(f, Len(f) - 1), Buf(f, 2 * Len(f))} :
                        f \in Streams(MaxChunks) \ {<<>>}}]

InitEncrypt ==
    /\ probe \in EncryptionProbes
    /\ verdict = NoProbe
    /\ req = <<>>
    /\ pc = <<>>
    /\ calls = <<>>
    /\ results = <<>>
    /\ resp = <<>>

\* await invoiceService.isPdfEncrypted(fileBuffer)
CallIsPdfEncrypted ==
    /\ verdict = NoProbe
    /\ verdict' = isPdfEncrypted(probe.buffer)
    /\ UNCHANGED <<req, pc, calls, results, resp, probe>>

NextEncrypt == CallIsPdfEncrypted

SpecEncrypt == InitEncrypt /\ [][NextEncrypt]_vars

----------------------------------------------------------------------------
(* C12 *)

\* The bytes of a buffer, as a sequence.
Bytes(b) == [i \in 1..b.size |-> b.fill[((i - 1) % Len(b.fill)) + 1]]

\* m is a contiguous part of s
Occurs(m, s) ==
    \E i \in 0..(Len(s) - Len(m)) : SubSeq(s, i + 1, i + Len(m)) = m

\* C12: isPdfEncrypted resolves true exactly when /Encrypt or
\* /Filter/Standard occurs somewhere in the bytes; the minimal document
\* without an Encrypt key is classified false, and the one whose trailer
\* refers to object 4 as /Encrypt, object 4 holding /Filter/Standard, true.
C12_EncryptionMarker ==
    Called
    => /\ verdict \in {[threw |-> FALSE, value |-> "true"],
                       [threw |-> FALSE, value |-> "false"]}
       /\ verdict.value = "true"
          <=> \/ Occurs(<< "/", "E", "n", "c", "r", "y", "p", "t" >>, Bytes(probe.buffer))
              \/ Occurs(<< "/", "F", "i", "l", "t", "e", "r", "/", "S", "t", "a", "n", "d", "a", "r", "d" >>,
                        Bytes(probe.buffer))
       /\ probe.buffer.fill = unencryptedPdfBuffer => verdict.value = "false"
       /\ probe.buffer.fill = encryptedPdfBuffer => verdict.value = "true"

\* the encrypted document of the tests, classified
C12_Witness ==
    /\ Called
    /\ probe.buffer.fill = encryptedPdfBuffer
    /\ Occurs(<<"/", "E", "n", "c", "r", "y", "p", "t", " ", "4", " ", "0", " ", "R">>,
              Bytes(probe.buffer))
    /\ verdict.value = "true"

\* the unencrypted document of the tests, classified
C12_WitnessPlain ==
    /\ Called
    /\ probe.buffer.fill = unencryptedPdfBuffer
    /\ verdict.value = "false"

\* a marker that ends exactly at the last byte
C12_WitnessAtEnd ==
    /\ Called
    /\ probe.buffer.size >= 8
    /\ SubSeq(Bytes(probe.buffer), probe.buffer.size - 7, probe.buffer.size)
          = << "/", "E", "n", "c", "r", "y", "p", "t" >>
    /\ ~Occurs(<< "/", "E", "n", "c", "r", "y", "p", "t" >>, SubSeq(Bytes(probe.buffer), 1, probe.buffer.size - 1))
    /\ verdict.value = "true"

----------------------------------------------------------------------------
(* C13 *)

\* Some stage invoked for r has settled without passing.
SomeStageFailed(r) ==
    \E i \in 1..Len(results[r]) : ~StagePassed(calls[r][i].stage, results[r][i])

\* How often stage was invoked for r.
TimesInvoked(r, stage) ==
    Cardinality({i \in 1..Len(calls[r]) : calls[r][i].stage = stage})

\* C13: within a request every collaborator is invoked at most once, and a
\* failure is final: once a stage has failed the handler has ended, it
\* invokes nothing more and it never sends the success status 501.
C13_NoRetry ==
    /\ [](\A r \in Reqs :
            /\ \A i \in 1..Len(Stages) : TimesInvoked(r, Stages[i]) <= 1
            /\ SomeStageFailed(r)
               => /\ pc[r] = "done"
                  /\ \A k \in 1..Len(resp[r]) : resp[r][k].status # 501)
    /\ [][\A r \in Reqs :
            SomeStageFailed(r)
            => /\ calls'[r] = calls[r]
               /\ results'[r] = results[r]
               /\ resp'[r] = resp[r]
               /\ pc'[r] = "done"]_vars

\* the upload collaborator rejected and the handler has ended
C13_Witness ==
    \E r \in Reqs :
        /\ Len(results[r]) = 6
        /\ results[r][6].threw
        /\ TimesInvoked(r, "uploadInvoice") = 1
        /\ pc[r] = "done"
        /\ resp[r][1].status = 500

----------------------------------------------------------------------------
(* C14 *)

\* The response of a request q handled alone, its collaborators answering a.
RunAlone(q, a) ==
    LET answer(status, body) == [status |-> status, body |-> body]
        msg(m) == [message |-> m]
    IN  IF q.file = <<>> THEN answer(400, msg("No file uploaded"))
        ELSE IF q.body = <<>> THEN answer(500, msg("Internal server error"))
        ELSE IF a[1].threw THEN answer(500, msg("Internal Server Error"))
        ELSE IF a[1].value \in {"false", "undefined"}
        THEN answer(401, msg("Unauthorized"))
        ELSE IF q.simulateTimeout = <<"true">>
        THEN answer(504, msg("Server timeout during upload"))
        ELSE IF a[2].threw THEN answer(415, msg("File format is not PDF"))
        ELSE IF a[3].threw THEN answer(500, msg("Internal server error"))
        ELSE IF a[3].value = "true" THEN answer(400, msg("pdf is encrypted"))
        ELSE IF a[4].threw THEN answer(500, msg("Internal server error"))
        ELSE IF a[4].value = "false" THEN answer(400, msg("PDF file is invalid"))
        ELSE IF a[5].threw
        THEN answer(413, msg("File size exceeds maximum limit"))
        ELSE IF a[6].threw THEN answer(500, msg("Internal server error"))
        ELSE answer(501, a[6].value)

\* The validators were given, and judged, the file of r itself.
OwnFileJudged(r) ==
    LET f == req[r].file[1]
    IN  /\ Len(results[r]) >= 2
           => results[r][2].threw <=> ~IsPdfFile(f)
        /\ Len(results[r]) >= 5
           => results[r][5].threw <=> TooLarge(f)
        /\ \A i \in 2..Len(calls[r]) :
              calls[r][i].args =
                 IF i = 2 THEN <<f.buffer, f.mimetype, f.originalname>>
                 ELSE IF i = 6 THEN <<f>>
                 ELSE <<f.buffer>>

\* C14: whatever the interleaving of the requests at their awaits, the
\* response of each request is the one it gets when handled alone, a function
\* of its own file, body, simulateTimeout flag and collaborator answers; and
\* a step of one handler leaves the state of every other request as it was.
C14_Independent ==
    /\ [](\A r \in Reqs :
            /\ OwnFileJudged(r)
            /\ pc[r] = "done" => resp[r] = <<RunAlone(req[r], results[r])>>
            /\ pc[r] # "done" => resp[r] = <<>>)
    /\ [][/\ req' = req
          /\ \E r \in Reqs :
                \A q \in Reqs \ {r} :
                    /\ pc'[q] = pc[q]
                    /\ calls'[q] = calls[q]
                    /\ results'[q] = results[q]
                    /\ resp'[q] = resp[q]]_vars

\* two handlers suspended at different awaits at the same time, the files of
\* their requests differing in size
C14_Witness ==
    \E r1, r2 \in Reqs :
        /\ pc[r1] = "validateSizeFile"
        /\ pc[r2] = "isPdfEncrypted"
        /\ req[r1].file[1].buffer.size # req[r2].file[1].buffer.size

----------------------------------------------------------------------------
(* C15 *)

\* C15: status 504 is sent only after authenticate was invoked and accepted;
\* with simulateTimeout = 'true' a rejected request still gets 401 and a
\* faulting authenticator 500.
C15_AuthGatesTimeout ==
    \A r \in Reqs :
        /\ \A k \in 1..Len(resp[r]) :
              resp[r][k].status = 504
              => /\ Len(calls[r]) >= 1
                 /\ calls[r][1].stage = "authenticate"
                 /\ Len(results[r]) >= 1
                 /\ ~results[r][1].threw
                 /\ results[r][1].value = "true"
        /\ ( /\ req[r].simulateTimeout = <<"true">>
             /\ req[r].file # <<>>
             /\ req[r].body # <<>>
             /\ pc[r] = "done" )
           => /\ Len(results[r]) = 1
              /\ Len(resp[r]) = 1
              /\ resp[r][1].status =
                    IF results[r][1].threw THEN 500
                    ELSE IF results[r][1].value = "true" THEN 504
                    ELSE 401

\* simulateTimeout = 'true' and authenticate answered false: 401
C15_Witness ==
    \E r \in Reqs :
        /\ req[r].simulateTimeout = <<"true">>
        /\ Len(results[r]) = 1
        /\ results[r][1] = [threw |-> FALSE, value |-> "false"]
        /\ pc[r] = "done"
        /\ resp[r][1].status = 401

----------------------------------------------------------------------------
(* C16 *)

\* C16: at most one response is sent for a request, and once it is sent the
\* handler has ended: no collaborator is invoked and nothing settles for
\* that request any more.
C16_OneResponse ==
    /\ [](\A r \in Reqs :
            /\ Len(resp[r]) <= 1
            /\ Len(resp[r]) = 1 <=> pc[r] = "done"
            /\ pc[r] = "done" => Len(results[r]) = Len(calls[r]))
    /\ [][\A r \in Reqs :
            resp[r] # <<>>
            => /\ resp'[r] = resp[r]
               /\ calls'[r] = calls[r]
               /\ results'[r] = results[r]]_vars

\* a response sent after three collaborators were invoked
C16_Witness ==
    \E r \in Reqs :
        /\ Len(resp[r]) = 1
        /\ Len(calls[r]) = 3
        /\ pc[r] = "done"

----------------------------------------------------------------------------
(* C17 *)

\* Every awaited call settles and the event loop then resumes the handler:
\* a continuation that can run eventually runs.
SpecLive == Init /\ [][Next]_vars /\ WF_vars(Next)

ResponseStatuses == {400, 401, 413, 415, 500, 501, 504}

\* C17: every request eventually ends with exactly one response, whose
\* status is one of 400, 401, 413, 415, 500, 501, 504.
C17_Terminates ==
    <>(\A r \in Reqs :
          /\ pc[r] = "done"
          /\ Len(resp[r]) = 1
          /\ resp[r][1].status \in ResponseStatuses)

\* a request that ended after all six awaits
C17_Witness ==
    \E r \in Reqs :
        /\ pc[r] = "done"
        /\ Len(results[r]) = 6
        /\ Len(resp[r]) = 1
        /\ resp[r][1].status \in ResponseStatuses

----------------------------------------------------------------------------
(* invoiceController.uploadMiddleware *)

\* How upload.single('file') completes: with or without an error, having
\* set req.file or not.
MulterOutcomes == [err : BOOLEAN, file : {<<>>} \cup {<<f>> : f \in SampleFiles}]

\* next()
CallNext(r) ==
    /\ calls' = [calls EXCEPT ![r] = Append(@, [stage |-> "next", args |-> <<>>])]
    /\ pc' = [pc EXCEPT ![r] = "done"]
    /\ UNCHANGED resp

\* Line 20: upload.single('file')(req, res, callback) is called.
UploadMiddleware(r) ==
    /\ pc[r] = "uploadMiddleware"
    /\ Invoke(r, "upload.single", <<"file">>)
    /\ UNCHANGED <<req, results, probe, verdict>>

\* Variant: the 400 response is sent without return.
UploadSingleCompletesFallsThrough(r) ==
    /\ pc[r] = "upload.single"
    /\ \E o \in MulterOutcomes :
        /\ req' = [req EXCEPT ![r].file = o.file]
        /\ Settle(r, IF o.err THEN Threw("MulterError") ELSE Returned("undefined"))
        /\ calls' = [calls EXCEPT ![r] = Append(@, [stage |-> "next", args |-> <<>>])]
        /\ pc' = [pc EXCEPT ![r] = "done"]
        /\ resp' = [resp EXCEPT ![r] =
              IF o.file = <<>>
              THEN Append(@, [status |-> 400, body |-> Message("No file uploaded")])
              ELSE @]
    /\ UNCHANGED <<probe, verdict>>

\* Lines 20-26: multer is done and runs the callback, which ignores its
\* error argument.
UploadSingleCompletes(r) ==
    /\ pc[r] = "upload.single"
    /\ \E o \in MulterOutcomes :
        /\ req' = [req EXCEPT ![r].file = o.file]
        /\ Settle(r, IF o.err THEN Threw("MulterError") ELSE Returned("undefined"))
        /\ IF o.file = <<>>
           THEN Respond(r, 400, Message("No file uploaded")) /\ UNCHANGED calls
           ELSE CallNext(r)
    /\ UNCHANGED <<probe, verdict>>

\* A request enters the middleware before multer has read it.
InitMiddleware ==
    /\ req \in [{1} -> {q \in Requests : q.file = <<>>}]
    /\ pc = [r \in {1} |-> "uploadMiddleware"]
    /\ calls = [r \in {1} |-> <<>>]
    /\ results = [r \in {1} |-> <<>>]
    /\ resp = [r \in {1} |-> <<>>]
    /\ probe = NoProbe
    /\ verdict = NoProbe

NextMiddleware ==
    \E r \in Reqs :
        \/ UploadMiddleware(r)
        \/ UploadSingleCompletes(r)

SpecMiddleware == InitMiddleware /\ [][NextMiddleware]_vars

----------------------------------------------------------------------------
(* C18 *)

\* C18: once multer has completed, with or without an error, the middleware
\* has either answered 400 "No file uploaded" and not called next (no file on
\* the request), or called next exactly once and sent no response (a file on
\* the request); before that it has done neither.
C18_MiddlewareEitherOr ==
    \A r \in Reqs :
        LET nexts == TimesInvoked(r, "next")
        IN  IF Len(results[r]) = 0
            THEN resp[r] = <<>> /\ nexts = 0
            ELSE IF req[r].file = <<>>
            THEN /\ resp[r] = <<[status |-> 400,
                                 body |-> [message |-> "No file uploaded"]]>>
                 /\ nexts = 0
            ELSE /\ resp[r] = <<>>
                 /\ nexts = 1

\* multer completed with an error and left no file
C18_Witness ==
    \E r \in Reqs :
        /\ Len(results[r]) = 1
        /\ results[r][1].threw
        /\ req[r].file = <<>>
        /\ Len(resp[r]) = 1

\* multer completed with an error but a file is on the request
C18_WitnessNext ==
    \E r \in Reqs :
        /\ Len(results[r]) = 1
        /\ results[r][1].threw
        /\ req[r].file # <<>>
        /\ TimesInvoked(r, "next") = 1

====
